---- MODULE Spec2Model ----
(***************************************************************************)
(* Model of the animation core of hyperlinks.space:                        *)
(*   - applyWaveToPath and the WaveSVG effect (app/components/WaveSVG.tsx) *)
(*   - tickStickers, Policy A (app/components/BouncingStickers.tsx)        *)
(*     and Policy B (the AABB / mirror-reflection variant)                 *)
(*   - initSticker, the BouncingStickers effects and loop, and onClick     *)
(* Numbers are fixed point: the code's doubles are modelled by integers    *)
(* in a stated unit, divisions round to the nearest unit.                  *)
(***************************************************************************)
EXTENDS Integers, Sequences, FiniteSets, TLC

VARIABLES
  \* ---- applyWaveToPath called as a pure function
  pathData,       \* the baseline text, a sequence of characters
  time,           \* the time argument, centiseconds
  waveIntensity,  \* the intensity argument, hundredths
  pathIndex,      \* the pathIndex argument
  result,         \* the returned text, NoResult before the call
  \* ---- the WaveSVG component
  svgContent,     \* the svgContent prop (a document id), NoDoc before mount
  dims,           \* the width/height props
  effectGen,      \* number of effect runs so far (names the elements it cloned)
  domPaths,       \* the path elements in the container: [gen, doc, ds]
  originalPaths,  \* originalPathsRef: set of [gen, idx, doc, d]
  animationFrameRef, \* animationFrameRef.current: a request id, 0 = null
  rafQueue,       \* pending animation-frame requests: set of [id, gen]
  nextRafId,      \* the id the next requestAnimationFrame returns
  hasCleanup,     \* whether the last effect run returned a cleanup function
  lastFrame,      \* what the last frame did: [gen, elapsed, stale]
  \* ---- the bouncing stickers
  policy,         \* "A" (momentum exchange) or "B" (AABB mirror reflection)
  stickers,       \* stickersRef.current: sequence of [x, y, vx, vy]
  bounds,         \* the (w, h) passed to the last tick, in pixels
  ticks,          \* number of ticks run
  moved,          \* the stickers after the move-and-clamp loop of the last tick
  pairLog,        \* the pair steps of the last tick: sequence of records
  before,         \* the stickers the last tick was called with
  frameTime,      \* milliseconds since the previous frame, as the frame starts
  twin,           \* a second run fed the same calls: [st, n]
  \* ---- activation of a sticker (onClick)
  links,          \* the links prop: sequence of targets
  location,       \* window.location.href
  assigned,       \* number of assignments to window.location.href
  opened,         \* the targets passed to window.open, in order
  clicks,         \* number of activations
  lastHref,       \* the href the last activation chose
  lastAction,     \* what the last activation did: "open" or "assign"
  \* ---- the BouncingStickers component
  instance,       \* the animation instance a run follows
  lifecycle,      \* "unmounted", "mounted" or "removed"
  ready,          \* the ready state (Policy A)
  rafRef,         \* rafRef.current: a request id, 0 initially
  loopQueue,      \* pending animation-frame requests for loop: set of ids
  loopCleanup     \* whether the loop effect's last run returned a cleanup

waveVars == <<pathData, time, waveIntensity, pathIndex, result>>
svgVars == <<svgContent, dims, effectGen, domPaths, originalPaths,
             animationFrameRef, rafQueue, nextRafId, hasCleanup, lastFrame>>
stickerVars == <<policy, stickers, bounds, ticks, moved, pairLog, before,
                 frameTime, twin>>
navVars == <<links, location, assigned, opened, clicks, lastHref, lastAction>>
loopVars == <<instance, lifecycle, ready, rafRef, loopQueue, loopCleanup>>
vars == <<waveVars, svgVars, stickerVars, navVars, loopVars>>

\* ------------------------------------------------------------------ bounds
\* Longest enumerated baseline text.
MaxLen == 5
\* Ticks of the sticker simulation per run.
MaxTicks == 2
\* Effect runs (mount + content changes) of one WaveSVG instance.
MaxEffects == 3
\* Frames of one WaveSVG instance.
MaxFrames == 3
\* Activations of stickers per run.
MaxClicks == 2

\* ------------------------------------------------------------ idle states
\* Each specification runs one part of the program; the variables of the
\* other parts rest in these states.
NoResult == <<"<none>">>

NoDoc == "none"

Unmounted == "unmounted"

Mounted == svgContent \notin {NoDoc, Unmounted}

WaveIdle ==
  /\ pathData = <<>>
  /\ time = 0
  /\ waveIntensity = 0
  /\ pathIndex = 0
  /\ result = NoResult

SvgIdle ==
  /\ svgContent = NoDoc
  /\ dims = <<400, 400>>
  /\ effectGen = 0
  /\ domPaths = [gen |-> 0, doc |-> NoDoc, ds |-> <<>>]
  /\ originalPaths = {}
  /\ animationFrameRef = 0
  /\ rafQueue = {}
  /\ nextRafId = 1
  /\ hasCleanup = FALSE
  /\ lastFrame = [n |-> 0, gen |-> 0, elapsed |-> 0, docs |-> {}, content |-> NoDoc]

StickersIdle ==
  /\ policy = "A"
  /\ stickers = <<>>
  /\ bounds = <<100, 100>>
  /\ ticks = 0
  /\ moved = <<>>
  /\ pairLog = <<>>
  /\ before = <<>>
  /\ frameTime = 16
  /\ twin = [st |-> <<>>, n |-> 0]

NoHref == <<>>

NavIdle ==
  /\ links = <<>>
  /\ location = <<"/">>
  /\ assigned = 0
  /\ opened = <<>>
  /\ clicks = 0
  /\ lastHref = NoHref
  /\ lastAction = "none"

LoopIdle ==
  /\ instance = "none"
  /\ lifecycle = "unmounted"
  /\ ready = FALSE
  /\ rafRef = 0
  /\ loopQueue = {}
  /\ loopCleanup = FALSE

\* ------------------------------------------------------------- arithmetic
Abs(a) == IF a < 0 THEN -a ELSE a

\* a / b for b > 0, rounded to the nearest integer, halves away from zero.
RoundDiv(a, b) ==
  IF a >= 0 THEN (a + b \div 2) \div b ELSE -(((-a) + b \div 2) \div b)

Min(a, b) == IF a < b THEN a ELSE b

Max(a, b) == IF a > b THEN a ELSE b

\* Math.sin of an angle in centiradians, times 100 (Bhaskara's rational
\* approximation on a half period; pi = 3.14).
HalfSin100(y) == (1600 * y * (314 - y)) \div (5 * 314 * 314 - 4 * y * (314 - y))

Sin100(x) ==
  LET r == x % 628
  IN IF r <= 314 THEN HalfSin100(r) ELSE -HalfSin100(r - 314)

Cos100(x) == Sin100(x + 157)

\* ------------------------------------------------------------- characters
Digits == <<"0", "1", "2", "3", "4", "5", "6", "7", "8", "9">>

IsDigit(c) == \E k \in 1..10 : Digits[k] = c

DigitVal(c) == (CHOOSE k \in 1..10 : Digits[k] = c) - 1

Pow10(n) == 10 ^ n

\* Unit of a token value: 1 / VScale. Every token of a text of MaxLen
\* characters has at most MaxLen - 2 decimals, so parseFloat is exact.
VScale == Pow10(MaxLen - 2)

\* ------------------------------------------------- applyWaveToPath: regex
\* First index >= i of s that holds no digit (Len(s) + 1 if none).
RECURSIVE DigitsEnd(_, _)
DigitsEnd(s, i) ==
  IF i <= Len(s) /\ IsDigit(s[i]) THEN DigitsEnd(s, i + 1) ELSE i

\* /(-?\d+\.?\d*)/ tried at position i: the index after the match, 0 if none.
MatchAt(s, i) ==
  LET d == IF s[i] = "-" THEN i + 1 ELSE i
  IN IF d > Len(s) \/ ~IsDigit(s[d]) THEN 0
     ELSE LET e1 == DigitsEnd(s, d)
              e2 == IF e1 <= Len(s) /\ s[e1] = "." THEN e1 + 1 ELSE e1
          IN DigitsEnd(s, e2)

\* Value of a digit string as an integer.
RECURSIVE DigitsValue(_)
DigitsValue(ds) ==
  IF ds = <<>> THEN 0
  ELSE 10 * DigitsValue(SubSeq(ds, 1, Len(ds) - 1)) + DigitVal(ds[Len(ds)])

\* parseFloat of a matched token, in units of 1 / VScale.
parseFloat(tok) ==
  LET neg == tok[1] = "-"
      body == IF neg THEN Tail(tok) ELSE tok
      dot == IF \E k \in 1..Len(body) : body[k] = "."
             THEN CHOOSE k \in 1..Len(body) : body[k] = "."
             ELSE Len(body) + 1
      ip == SubSeq(body, 1, dot - 1)
      fp == SubSeq(body, dot + 1, Len(body))
      places == MaxLen - 2
      mag == DigitsValue(ip) * VScale
             + (IF Len(fp) <= places
                THEN DigitsValue(fp) * Pow10(places - Len(fp))
                ELSE DigitsValue(SubSeq(fp, 1, places)))
  IN IF neg THEN -mag ELSE mag

\* The while loop over numberRegex.exec: the spans matched from position i
\* on, each [index (0-based), length].
RECURSIVE ExecAll(_, _)
ExecAll(s, i) ==
  IF i > Len(s) THEN <<>>
  ELSE LET e == MatchAt(s, i)
       IN IF e = 0 THEN ExecAll(s, i + 1)
          ELSE <<[index |-> i - 1, length |-> e - i]>> \o ExecAll(s, e)

\* The matches array: [value, index, length] of every match, in order.
matches(s) ==
  LET sp == ExecAll(s, 1)
  IN [k \in 1..Len(sp) |->
        [value |-> parseFloat(SubSeq(s, sp[k].index + 1, sp[k].index + sp[k].length)),
         index |-> sp[k].index,
         length |-> sp[k].length]]

\* ----------------------------------------------- applyWaveToPath: the wave
\* num.value * k rad as centiradians, k given in thousandths.
ValueAngle(v, k) == RoundDiv((v \div (VScale \div 100)) * k, 1000)

\* time * f rad as centiradians, f given in tenths.
TimeAngle(t, f) == RoundDiv(t * f, 10)

wave1(isY, v, t, I, pi) ==
  IF isY
  THEN RoundDiv(Sin100(TimeAngle(t, 25) + ValueAngle(v, 12) + 100 * pi) * I, 100)
  ELSE RoundDiv(Cos100(TimeAngle(t, 20) + ValueAngle(v, 12) + 100 * pi) * I * 6, 1000)

wave2(isY, v, t, I, pi) ==
  IF isY
  THEN RoundDiv(Sin100(TimeAngle(t, 15) + ValueAngle(v, 18) + 50 * pi) * I * 5, 1000)
  ELSE RoundDiv(Cos100(TimeAngle(t, 12) + ValueAngle(v, 18) + 50 * pi) * I * 35, 10000)

\* wave3 with the factor waveIntensity left out.
wave3_NoIntensity(isY, v, t, I) ==
  IF isY
  THEN RoundDiv(Sin100(TimeAngle(t, 35) + ValueAngle(v, 6)) * 3, 10)
  ELSE RoundDiv(Cos100(TimeAngle(t, 30) + ValueAngle(v, 6)) * 25, 100)

wave3(isY, v, t, I) ==
  IF isY
  THEN RoundDiv(Sin100(TimeAngle(t, 35) + ValueAngle(v, 6)) * I * 3, 1000)
  ELSE RoundDiv(Cos100(TimeAngle(t, 30) + ValueAngle(v, 6)) * I * 25, 10000)

\* finalWave, hundredths: combinedWave * (1 + |value| * 0.0003).
finalWave(isY, v, t, I, pi) ==
  LET combinedWave == wave1(isY, v, t, I, pi) + wave2(isY, v, t, I, pi)
                      + wave3(isY, v, t, I)
  IN combinedWave + RoundDiv(combinedWave * 3 * (Abs(v) \div VScale), 10000)

\* newValue of the match of ordinal index (0-based), units of 1 / VScale.
newValue(num, index, t, I, pi) ==
  num.value + finalWave(index % 2 = 1, num.value, t, I, pi) * (VScale \div 100)

\* ------------------------------------------------ applyWaveToPath: toFixed
RECURSIVE NatChars(_)
NatChars(n) ==
  IF n < 10 THEN <<Digits[n + 1]>>
  ELSE NatChars(n \div 10) \o <<Digits[(n % 10) + 1]>>

\* toFixed(1): one decimal digit.
toFixed2_OneDecimal(v) ==
  LET h == RoundDiv(Abs(v), VScale \div 10)
      txt == NatChars(h \div 10) \o <<".">> \o <<Digits[(h % 10) + 1]>>
  IN IF v < 0 THEN <<"-">> \o txt ELSE txt

\* Number.prototype.toFixed(2) of v (units of 1 / VScale).
toFixed2(v) ==
  LET h == RoundDiv(Abs(v), VScale \div 100)
      txt == NatChars(h \div 100) \o <<".">>
             \o <<Digits[((h \div 10) % 10) + 1], Digits[(h % 10) + 1]>>
  IN IF v < 0 THEN <<"-">> \o txt ELSE txt

\* The forEach of applyWaveToPath from match k on: the text appended to
\* result, given lastIndex (0-based).
RECURSIVE Rebuild(_, _, _, _, _, _, _)
Rebuild(s, ms, k, lastIndex, t, I, pi) ==
  IF k > Len(ms) THEN SubSeq(s, lastIndex + 1, Len(s))
  ELSE SubSeq(s, lastIndex + 1, ms[k].index)
       \o toFixed2(newValue(ms[k], k - 1, t, I, pi))
       \o Rebuild(s, ms, k + 1, ms[k].index + ms[k].length, t, I, pi)

\* applyWaveToPath whose early return hands back an empty text.
applyWaveToPath_EmptyOnNoMatch(s, t, I, pi) ==
  IF Len(matches(s)) = 0 THEN <<>> ELSE Rebuild(s, matches(s), 1, 0, t, I, pi)

applyWaveToPath(s, t, I, pi) ==
  IF Len(matches(s)) = 0 THEN s ELSE Rebuild(s, matches(s), 1, 0, t, I, pi)

\* ------------------------------------------------- applyWaveToPath: driver
Alphabet == {"M", "-", ".", "0", "1"}

\* The scenario of the specification's zero-intensity example.
ExamplePath == <<"M", "0", ",", "0", " ", "L", "1", "0", ",", "1", "0">>

Baselines == UNION {[1..n -> Alphabet] : n \in 0..MaxLen} \cup {ExamplePath}

\* elapsed + phaseOffset, centiseconds.
Times == {0, 70, 150}

\* waveIntensity, hundredths: 0, and the extremes 6 - 3 and 6 + 3 of animate.
Intensities == {0, 300, 900}

PathIndexes == {0, 1}

InitWave ==
  /\ SvgIdle
  /\ StickersIdle
  /\ NavIdle
  /\ LoopIdle
  /\ pathData \in Baselines
  /\ time \in Times
  /\ waveIntensity \in Intensities
  /\ pathIndex \in PathIndexes
  /\ result = NoResult

\* One call applyWaveToPath(pathData, time, waveIntensity, pathIndex).
CallApplyWave ==
  /\ result = NoResult
  /\ result' = applyWaveToPath(pathData, time, waveIntensity, pathIndex)
  /\ UNCHANGED <<pathData, time, waveIntensity, pathIndex>>
  /\ UNCHANGED <<svgVars, stickerVars, navVars, loopVars>>

NextWave == CallApplyWave

\* ------------------------------------------------ applyWaveToPath: claims
\* Whether 0-based position p of a text lies in one of the spans sp.
InSpan(sp, p) ==
  \E k \in 1..Len(sp) : sp[k].index <= p /\ p < sp[k].index + sp[k].length

\* The characters of s outside its numeric tokens, in order.
RECURSIVE NonNumericFrom(_, _, _)
NonNumericFrom(s, sp, i) ==
  IF i > Len(s) THEN <<>>
  ELSE (IF InSpan(sp, i - 1) THEN <<>> ELSE <<s[i]>>) \o NonNumericFrom(s, sp, i + 1)

NonNumeric(s) == NonNumericFrom(s, ExecAll(s, 1), 1)

\* s with the span of every match replaced by toFixed(2) of its own value.
RECURSIVE FormattedFrom(_, _, _, _)
FormattedFrom(s, ms, k, lastIndex) ==
  IF k > Len(ms) THEN SubSeq(s, lastIndex + 1, Len(s))
  ELSE SubSeq(s, lastIndex + 1, ms[k].index) \o toFixed2(ms[k].value)
       \o FormattedFrom(s, ms, k + 1, ms[k].index + ms[k].length)

Called == result /= NoResult

\* C7: the tokens extracted from the output are as many as those of the
\* baseline, and the output's non-numeric characters are the baseline's, in
\* the same order.
C7_StructurePreserved ==
  Called =>
    /\ Len(ExecAll(result, 1)) = Len(ExecAll(pathData, 1))
    /\ NonNumeric(result) = NonNumeric(pathData)

\* C8: at intensity 0 every token is written as its own baseline value with
\* two decimals, whatever the time and the path index; "M0,0 L10,10" gives
\* 0.00, 0.00, 10.00, 10.00.
C8_ZeroIntensityIdentity ==
  (Called /\ waveIntensity = 0) =>
    /\ result = FormattedFrom(pathData, matches(pathData), 1, 0)
    /\ pathData = ExamplePath =>
         result = <<"M", "0", ".", "0", "0", ",", "0", ".", "0", "0", " ",
                    "L", "1", "0", ".", "0", "0", ",", "1", "0", ".", "0", "0">>

C8_Witness ==
  /\ Called
  /\ waveIntensity = 0
  /\ time > 0
  /\ pathData = ExamplePath
  /\ Len(result) = 23

\* C9: a text without a numeric token is returned as it is, for every time,
\* intensity and path index.
C9_NoTokensNoOp ==
  (Called /\ Len(ExecAll(pathData, 1)) = 0) => result = pathData

C9_Witness ==
  /\ Called
  /\ Len(ExecAll(pathData, 1)) = 0
  /\ Len(pathData) = 3
  /\ waveIntensity > 0
  /\ result = pathData

\* A number written with exactly two decimal digits: an optional sign, one
\* or more digits, a point, two digits.
IsTwoDecimals(t) ==
  LET d == IF t /= <<>> /\ t[1] = "-" THEN 2 ELSE 1
  IN /\ Len(t) >= d + 3
     /\ t[Len(t) - 2] = "."
     /\ \A i \in d..Len(t) : i /= Len(t) - 2 => IsDigit(t[i])

\* out from position o on is the baseline s from lastIndex on with the
\* spans sp[k], sp[k + 1], ... each replaced by a two-decimal number.
RECURSIVE SpansReplaced(_, _, _, _, _, _)
SpansReplaced(out, o, s, sp, k, lastIndex) ==
  IF k > Len(sp)
  THEN /\ Len(out) - o = Len(s) - (lastIndex + 1)
       /\ SubSeq(out, o, Len(out)) = SubSeq(s, lastIndex + 1, Len(s))
  ELSE LET e == o + (sp[k].index - lastIndex)
       IN /\ e - 1 <= Len(out)
          /\ SubSeq(out, o, e - 1) = SubSeq(s, lastIndex + 1, sp[k].index)
          /\ \E n \in 4..(Len(out) - e + 1) :
               /\ IsTwoDecimals(SubSeq(out, e, e + n - 1))
               /\ SpansReplaced(out, e + n, s, sp, k + 1,
                                sp[k].index + sp[k].length)

\* C24: the output of applyWaveToPath is the baseline with the span of each
\* numeric token, in ascending order, replaced by a number with exactly two
\* decimal digits; the characters outside the spans are all there, unchanged
\* and in order, and as many spans are replaced as there are tokens.
C24_OutsideTextPreserved ==
  Called =>
    LET sp == ExecAll(pathData, 1)
    IN /\ \A k \in 1..(Len(sp) - 1) :
            sp[k].index + sp[k].length <= sp[k + 1].index
       /\ SpansReplaced(result, 1, pathData, sp, 1, 0)

\* A call on a text with two tokens and other characters before, between
\* and after them, at an intensity that moved the values.
C24_Witness ==
  /\ Called
  /\ waveIntensity > 0
  /\ LET sp == ExecAll(pathData, 1)
     IN /\ Len(sp) = 2
        /\ sp[1].index > 0
        /\ sp[1].index + sp[1].length < sp[2].index
        /\ sp[2].index + sp[2].length < Len(pathData)
  /\ result /= FormattedFrom(pathData, matches(pathData), 1, 0)

\* ------------------------------------------------------ WaveSVG: contents
\* The svgContent values: whether the text parses to a document with an svg
\* element, and the d attribute of each of its path elements (<<>>: none).
Docs ==
  "two" :> [svg |-> TRUE, paths |-> <<<<"M", "1", ",", "1">>, <<"1", "-", "1">>>>]
  @@ "nod" :> [svg |-> TRUE, paths |-> <<<<"M", "-", "1", ".", "1">>, <<>>>>]
  @@ "bad" :> [svg |-> FALSE, paths |-> <<>>]

DocIds == DOMAIN Docs

\* The width and height props (AnimatedCell passes its measured size).
Dimensions == {<<400, 400>>, <<200, 100>>}

\* Centiseconds between two frames: a display frame, or a long pause.
FrameSteps == {2, 150}

\* ------------------------------------------------------- WaveSVG: effect
\* paths.forEach(... originalPathsRef.current.set(path, originalPath)): the
\* entries added for the elements cloned by effect run gen from document doc.
CapturedBaselines(gen, doc) ==
  {[gen |-> gen, idx |-> i - 1, doc |-> doc, d |-> Docs[doc].paths[i]] :
     i \in {j \in 1..Len(Docs[doc].paths) : Docs[doc].paths[j] /= <<>>}}

\* The cleanup that keeps the map.
ClearedMap_Kept(m) == m

\* originalPathsRef.current.clear() of the cleanup.
ClearedMap(m) == {}

\* if (animationFrameRef.current) cancelAnimationFrame(animationFrameRef.current)
CancelledQueue(q, ref) == IF ref /= 0 THEN {r \in q : r.id /= ref} ELSE q

\* originalPathsRef.current.get(path) for element idx of run gen (<<>>: undefined).
OriginalPath(m, gen, idx) ==
  IF \E e \in m : e.gen = gen /\ e.idx = idx
  THEN (CHOOSE e \in m : e.gen = gen /\ e.idx = idx).d
  ELSE <<>>

\* const waveIntensity = baseIntensity + Math.sin(elapsed * 0.6 + index * 0.5) * 3
FrameIntensity(elapsed, index) == 600 + 3 * Sin100(TimeAngle(elapsed, 6) + 50 * index)

\* The text animate distorts for element idx: the current attribute instead
\* of the stored baseline.
FrameSource_Current(m, gen, idx, ds) ==
  IF OriginalPath(m, gen, idx) = <<>> THEN <<>> ELSE ds[idx + 1]

\* The text animate distorts for element idx: the stored baseline.
FrameSource(m, gen, idx, ds) == OriginalPath(m, gen, idx)

\* paths.forEach of animate: the d attributes after the frame.
animate(m, gen, elapsed, ds) ==
  [i \in 1..Len(ds) |->
     LET originalPath == FrameSource(m, gen, i - 1, ds)
     IN IF originalPath = <<>> THEN ds[i]
        ELSE applyWaveToPath(originalPath, elapsed + 30 * (i - 1),
                             FrameIntensity(elapsed, i - 1), i - 1)]

\* The documents whose baselines a frame of run gen reads.
DocsRead(m, gen) == {e.doc : e \in {x \in m : x.gen = gen}}

\* The effect body for svgContent = doc, run on map m and queue q (what the
\* previous cleanup, if any, left).
RunEffect(doc, m, q) ==
  LET gen == effectGen + 1
      m1 == m \cup CapturedBaselines(gen, doc)
  IN /\ svgContent' = doc
     /\ effectGen' = gen
     /\ IF ~Docs[doc].svg
        THEN /\ originalPaths' = m
             /\ rafQueue' = q
             /\ hasCleanup' = FALSE
             /\ UNCHANGED <<domPaths, animationFrameRef, nextRafId, lastFrame>>
        ELSE /\ originalPaths' = m1
             /\ domPaths' = [gen |-> gen, doc |-> doc,
                           ds |-> animate(m1, gen, 0, Docs[doc].paths)]
             /\ lastFrame' = [n |-> lastFrame.n, gen |-> gen, elapsed |-> 0,
                              docs |-> DocsRead(m1, gen), content |-> doc]
             /\ animationFrameRef' = nextRafId
             /\ rafQueue' = q \cup {[id |-> nextRafId, gen |-> gen]}
             /\ nextRafId' = nextRafId + 1
             /\ hasCleanup' = TRUE

\* First render: the effect runs for the initial svgContent.
Mount(doc) ==
  /\ svgContent = NoDoc
  /\ RunEffect(doc, originalPaths, rafQueue)
  /\ UNCHANGED dims
  /\ UNCHANGED <<waveVars, stickerVars, navVars, loopVars>>

\* The svgContent prop changes: the previous cleanup, then the effect.
ChangeContent(doc) ==
  /\ Mounted
  /\ doc /= svgContent
  /\ effectGen < MaxEffects
  /\ IF hasCleanup
     THEN RunEffect(doc, ClearedMap(originalPaths),
                    CancelledQueue(rafQueue, animationFrameRef))
     ELSE RunEffect(doc, originalPaths, rafQueue)
  /\ UNCHANGED dims
  /\ UNCHANGED <<waveVars, stickerVars, navVars, loopVars>>

\* The width/height props change: a re-render, no effect runs.
ChangeDims(d) ==
  /\ Mounted
  /\ d /= dims
  /\ dims' = d
  /\ UNCHANGED <<svgContent, effectGen, domPaths, originalPaths,
                 animationFrameRef, rafQueue, nextRafId, hasCleanup, lastFrame>>
  /\ UNCHANGED <<waveVars, stickerVars, navVars, loopVars>>

\* The browser runs the pending request r: one call of animate.
Frame(r, step) ==
  /\ r \in rafQueue
  /\ lastFrame.n < MaxFrames
  /\ LET elapsed == lastFrame.elapsed + step
     IN /\ domPaths' = IF r.gen = domPaths.gen
                       THEN [domPaths EXCEPT !.ds = animate(originalPaths, r.gen, elapsed, @)]
                       ELSE domPaths
        /\ lastFrame' = [n |-> lastFrame.n + 1, gen |-> r.gen, elapsed |-> elapsed,
                         docs |-> DocsRead(originalPaths, r.gen),
                         content |-> svgContent]
  /\ animationFrameRef' = nextRafId
  /\ rafQueue' = (rafQueue \ {r}) \cup {[id |-> nextRafId, gen |-> r.gen]}
  /\ nextRafId' = nextRafId + 1
  /\ UNCHANGED <<svgContent, dims, effectGen, originalPaths, hasCleanup>>
  /\ UNCHANGED <<waveVars, stickerVars, navVars, loopVars>>

\* The component unmounts: the cleanup of the last effect run.
Unmount ==
  /\ Mounted
  /\ svgContent' = Unmounted
  /\ originalPaths' = IF hasCleanup THEN ClearedMap(originalPaths) ELSE originalPaths
  /\ rafQueue' = IF hasCleanup THEN CancelledQueue(rafQueue, animationFrameRef)
                 ELSE rafQueue
  /\ hasCleanup' = FALSE
  /\ UNCHANGED <<dims, effectGen, domPaths, animationFrameRef, nextRafId, lastFrame>>
  /\ UNCHANGED <<waveVars, stickerVars, navVars, loopVars>>

NextSvg ==
  \/ \E doc \in DocIds : Mount(doc)
  \/ \E doc \in DocIds : ChangeContent(doc)
  \/ \E d \in Dimensions : ChangeDims(d)
  \/ \E r \in rafQueue, step \in FrameSteps : Frame(r, step)
  \/ Unmount

\* -------------------------------------------------------- WaveSVG: claims
\* Largest |finalWave| of one frame for a token of value v, hundredths:
\* (1 + 0.5 + 0.3) * (6 + 3) * (1 + |v| * 0.0003), and the rounding of its terms.
MaxFrameOffset(v) == 1620 + RoundDiv(1620 * 3 * (Abs(v) \div VScale), 10000) + 4

\* The text a single frame at lastFrame.elapsed writes for element i of the
\* container from the d attribute the document gave it.
SingleFrameText(i) ==
  LET base == Docs[domPaths.doc].paths[i]
  IN IF base = <<>> THEN base
     ELSE applyWaveToPath(base, lastFrame.elapsed + 30 * (i - 1),
                          FrameIntensity(lastFrame.elapsed, i - 1), i - 1)

\* C5: a stored baseline is the d attribute its document gave the element,
\* whatever frames and width/height changes happened since; the displayed
\* text of every path is one distortion of that d attribute at the time of
\* the last frame, and every coordinate it wrote lies within one frame's
\* maximum offset of the baseline value.
C5_NoCompoundingDrift ==
  /\ \A e \in originalPaths : e.d = Docs[e.doc].paths[e.idx + 1]
  /\ domPaths.gen > 0 =>
       \A i \in 1..Len(domPaths.ds) :
         /\ domPaths.ds[i] = SingleFrameText(i)
         /\ LET ms == matches(Docs[domPaths.doc].paths[i])
            IN \A k \in 1..Len(ms) :
                 Abs(newValue(ms[k], k - 1, lastFrame.elapsed + 30 * (i - 1),
                              FrameIntensity(lastFrame.elapsed, i - 1), i - 1)
                     - ms[k].value) <= MaxFrameOffset(ms[k].value) * (VScale \div 100)

C5_Witness ==
  /\ lastFrame.n >= 3
  /\ lastFrame.gen = effectGen
  /\ dims /= <<400, 400>>
  /\ originalPaths /= {}
  /\ \E i \in 1..Len(domPaths.ds) :
       domPaths.ds[i] /= Docs[domPaths.doc].paths[i]

\* C6: the pending frame requests are at most one, of the current effect
\* run, and none once the content has no loop; the baseline map holds only
\* baselines the current run captured from the current content; every frame
\* read only baselines of the content current when it ran.
C6_BaselineInvalidation ==
  /\ Cardinality(rafQueue) <= 1
  /\ \A r \in rafQueue : r.gen = effectGen /\ r.id = animationFrameRef /\ hasCleanup
  /\ \A e \in originalPaths : e.gen = effectGen /\ e.doc = svgContent
  /\ lastFrame.docs \subseteq {lastFrame.content}

C6_Witness ==
  /\ effectGen >= 2
  /\ lastFrame.n >= 2
  /\ lastFrame.gen = effectGen
  /\ lastFrame.elapsed > 0
  /\ lastFrame.docs = {svgContent}
  /\ originalPaths /= {}

\* ------------------------------------------------------ stickers: numbers
STICKER_SIZE == 44

\* Stickers of one instance (STICKER_SOURCES.length), and the pairs i < j.
NumStickers == 3

PairsPerTick == (NumStickers * (NumStickers - 1)) \div 2

\* SPEED in tenths of a pixel per frame: 1.8 (Policy A), 3.6 (Policy B).
SPEED_A == 18

SPEED_B == 36

\* Units per pixel of positions and velocities. Policy B halves an overlap
\* at every pair step, so its unit leaves one binary place per pair step of
\* a run: every halving is exact, as it is for doubles.
Unit(p) == IF p = "A" THEN 50 ELSE 50 * 2 ^ (PairsPerTick * MaxTicks)

Size(p) == STICKER_SIZE * Unit(p)

\* Unit of the components of a unit normal (Policy A).
NormalScale == 10 ^ 4

\* Policy A keeps an overlap in units of 1 / DistScale of the position unit.
DistScale == 10 ^ 1

\* Math.sqrt keeps its relative precision at small arguments: the root of
\* distSq is taken in units of 1 / SqrtScale(distSq) of the position unit.
SqrtScale(distSq) ==
  IF distSq <= 2 * 10 ^ 3 THEN 10 ^ 3
  ELSE IF distSq <= 2 * 10 ^ 5 THEN 10 ^ 2
  ELSE 10

\* Math.sqrt of n >= 0, to the nearest integer.
RECURSIVE FloorSqrt(_, _, _)
FloorSqrt(n, lo, hi) ==
  IF lo >= hi THEN lo
  ELSE LET mid == (lo + hi + 1) \div 2
       IN IF mid * mid <= n THEN FloorSqrt(n, mid, hi) ELSE FloorSqrt(n, lo, mid - 1)

Sqrt(n) ==
  LET r == FloorSqrt(n, 0, 46000)
  IN IF n - r * r > r THEN r + 1 ELSE r

\* --------------------------------------------------- stickers: first loop
\* The clamp that leaves the velocity as it was.
MoveAndClamp_NoReflect(s, maxX, maxY) ==
  LET x0 == s.x + s.vx
      y0 == s.y + s.vy
      x1 == IF x0 <= 0 THEN 0 ELSE x0
      x2 == IF x1 >= maxX THEN maxX ELSE x1
      y1 == IF y0 <= 0 THEN 0 ELSE y0
      y2 == IF y1 >= maxY THEN maxY ELSE y1
  IN [x |-> x2, y |-> y2, vx |-> s.vx, vy |-> s.vy]

\* The move scaled by the time since the previous frame.
MoveAndClamp_TimeScaled(s, maxX, maxY) ==
  LET x0 == s.x + (s.vx * frameTime) \div 16
      y0 == s.y + (s.vy * frameTime) \div 16
      x1 == IF x0 <= 0 THEN 0 ELSE x0
      vx1 == IF x0 <= 0 THEN Abs(s.vx) ELSE s.vx
      x2 == IF x1 >= maxX THEN maxX ELSE x1
      vx2 == IF x1 >= maxX THEN -Abs(vx1) ELSE vx1
      y1 == IF y0 <= 0 THEN 0 ELSE y0
      vy1 == IF y0 <= 0 THEN Abs(s.vy) ELSE s.vy
      y2 == IF y1 >= maxY THEN maxY ELSE y1
      vy2 == IF y1 >= maxY THEN -Abs(vy1) ELSE vy1
  IN [x |-> x2, y |-> y2, vx |-> vx2, vy |-> vy2]

\* One iteration of "for (const s of stickers)": advance, then the four ifs.
MoveAndClamp(s, maxX, maxY) ==
  LET x0 == s.x + s.vx
      y0 == s.y + s.vy
      x1 == IF x0 <= 0 THEN 0 ELSE x0
      vx1 == IF x0 <= 0 THEN Abs(s.vx) ELSE s.vx
      x2 == IF x1 >= maxX THEN maxX ELSE x1
      vx2 == IF x1 >= maxX THEN -Abs(vx1) ELSE vx1
      y1 == IF y0 <= 0 THEN 0 ELSE y0
      vy1 == IF y0 <= 0 THEN Abs(s.vy) ELSE s.vy
      y2 == IF y1 >= maxY THEN maxY ELSE y1
      vy2 == IF y1 >= maxY THEN -Abs(vy1) ELSE vy1
  IN [x |-> x2, y |-> y2, vx |-> vx2, vy |-> vy2]

\* ------------------------------------------- stickers: Policy A pair step
\* The four velocity assignments, with the sign of b's update turned.
ExchangeA_SameSign(a, b, vrel, nx, ny) ==
  <<[a EXCEPT !.vx = @ - RoundDiv(vrel * nx, NormalScale),
              !.vy = @ - RoundDiv(vrel * ny, NormalScale)],
    [b EXCEPT !.vx = @ - RoundDiv(vrel * nx, NormalScale),
              !.vy = @ - RoundDiv(vrel * ny, NormalScale)]>>

\* The assignments with half of vrel.
ExchangeA_Half(a, b, vrel, nx, ny) ==
  <<[a EXCEPT !.vx = @ - RoundDiv(vrel * nx, 2 * NormalScale),
              !.vy = @ - RoundDiv(vrel * ny, 2 * NormalScale)],
    [b EXCEPT !.vx = @ + RoundDiv(vrel * nx, 2 * NormalScale),
              !.vy = @ + RoundDiv(vrel * ny, 2 * NormalScale)]>>

\* The assignments to a alone.
ExchangeA_OneSided(a, b, vrel, nx, ny) ==
  <<[a EXCEPT !.vx = @ - RoundDiv(vrel * nx, NormalScale),
              !.vy = @ - RoundDiv(vrel * ny, NormalScale)],
    b>>

\* a.vx -= vrel * nx; a.vy -= vrel * ny; b.vx += vrel * nx; b.vy += vrel * ny
ExchangeA(a, b, vrel, nx, ny) ==
  <<[a EXCEPT !.vx = @ - RoundDiv(vrel * nx, NormalScale),
              !.vy = @ - RoundDiv(vrel * ny, NormalScale)],
    [b EXCEPT !.vx = @ + RoundDiv(vrel * nx, NormalScale),
              !.vy = @ + RoundDiv(vrel * ny, NormalScale)]>>

\* The position assignments with a moved along the normal and b against it.
SeparateA_Toward(a, b, overlap, nx, ny) ==
  <<[a EXCEPT !.x = @ + RoundDiv(overlap * nx, 2 * DistScale * NormalScale),
              !.y = @ + RoundDiv(overlap * ny, 2 * DistScale * NormalScale)],
    [b EXCEPT !.x = @ - RoundDiv(overlap * nx, 2 * DistScale * NormalScale),
              !.y = @ - RoundDiv(overlap * ny, 2 * DistScale * NormalScale)]>>

\* The position assignments: each moved by overlap * n * 0.5.
SeparateA(a, b, overlap, nx, ny) ==
  <<[a EXCEPT !.x = @ - RoundDiv(overlap * nx, 2 * DistScale * NormalScale),
              !.y = @ - RoundDiv(overlap * ny, 2 * DistScale * NormalScale)],
    [b EXCEPT !.x = @ + RoundDiv(overlap * nx, 2 * DistScale * NormalScale),
              !.y = @ + RoundDiv(overlap * ny, 2 * DistScale * NormalScale)]>>

\* The record a pair step yields where the code continues: nothing changed.
SkippedPair(a, b) == [a |-> a, b |-> b, acted |-> FALSE, nx |-> 0, ny |-> 0]

\* The pair after the two groups of assignments; q is <<a, b>>.
ResolvedPairA(q, nx, ny) ==
  [a |-> q[1], b |-> q[2], acted |-> TRUE, nx |-> nx, ny |-> ny]

\* From "if (vrel >= 0) continue" to the end of the loop body.
BounceA(a, b, nx, ny, overlap, vrel) ==
  IF vrel >= 0 THEN SkippedPair(a, b)
  ELSE LET v == ExchangeA(a, b, vrel, nx, ny)
       IN ResolvedPairA(SeparateA(v[1], v[2], overlap, nx, ny), nx, ny)

\* nx, ny, vrel and overlap from dx, dy and dist; dist and overlap are in
\* units of 1 / scale and 1 / DistScale of the position unit.
NormalA(a, b, dx, dy, scale, dist) ==
  LET nx == RoundDiv(dx * scale * NormalScale, dist)
      ny == RoundDiv(dy * scale * NormalScale, dist)
  IN BounceA(a, b, nx, ny,
             RoundDiv(DistScale * (scale * Size("A") - dist), scale),
             RoundDiv((a.vx - b.vx) * nx + (a.vy - b.vy) * ny, NormalScale))

\* The contact test without its second operand: coinciding centers are
\* resolved along the X axis.
ContactA_NoDegenerateTest(a, b, dx, dy, distSq) ==
  IF distSq >= Size("A") * Size("A") THEN SkippedPair(a, b)
  ELSE IF distSq = 0
       THEN BounceA(a, b, NormalScale, 0, DistScale * Size("A"), a.vx - b.vx)
       ELSE LET scale == SqrtScale(distSq)
            IN NormalA(a, b, dx, dy, scale, Sqrt(scale * scale * distSq))

\* From "if (distSq >= minDist * minDist || distSq < 1e-10) continue" on;
\* distSq < 1e-10 px^2 is distSq = 0 at this resolution.
ContactA(a, b, dx, dy, distSq) ==
  IF distSq >= Size("A") * Size("A") \/ distSq = 0 THEN SkippedPair(a, b)
  ELSE LET scale == SqrtScale(distSq)
       IN NormalA(a, b, dx, dy, scale, Sqrt(scale * scale * distSq))

\* The body of the inner loop of Policy A for the pair (a, b):
\* [a, b, acted, nx, ny] with acted FALSE where the code continues.
ResolvePairA(a, b) ==
  LET minDist == Size("A")
      dx == (b.x + minDist \div 2) - (a.x + minDist \div 2)
      dy == (b.y + minDist \div 2) - (a.y + minDist \div 2)
  IN ContactA(a, b, dx, dy, dx * dx + dy * dy)

\* ------------------------------------------- stickers: Policy B pair step
\* The reflection that removes the normal component.
reflectVelocity_Absorb(vx, vy, nx, ny) ==
  LET dot == vx * nx + vy * ny
  IN [vx |-> vx - dot * nx, vy |-> vy - dot * ny]

\* The reflection with the factor 3.
reflectVelocity_Overshoot(vx, vy, nx, ny) ==
  LET dot == vx * nx + vy * ny
  IN [vx |-> vx - 3 * dot * nx, vy |-> vy - 3 * dot * ny]

\* vx - 2 * dot * nx, vy - 2 * dot * ny with dot = vx * nx + vy * ny
reflectVelocity(vx, vy, nx, ny) ==
  LET dot == vx * nx + vy * ny
  IN [vx |-> vx - 2 * dot * nx, vy |-> vy - 2 * dot * ny]

\* The pair step in which boxes that exactly touch collide.
ResolvePairB_TouchCollides(a, b) ==
  LET size == Size("B")
      overlapX == Min(a.x + size, b.x + size) - Max(a.x, b.x)
      overlapY == Min(a.y + size, b.y + size) - Max(a.y, b.y)
  IN IF overlapX < 0 \/ overlapY < 0
     THEN [a |-> a, b |-> b, acted |-> FALSE, nx |-> 0, ny |-> 0]
     ELSE LET nx == IF overlapX < overlapY
                    THEN (IF a.x + size \div 2 < b.x + size \div 2 THEN -1 ELSE 1)
                    ELSE 0
              ny == IF overlapX < overlapY
                    THEN 0
                    ELSE (IF a.y + size \div 2 < b.y + size \div 2 THEN 1 ELSE -1)
              overlap == IF overlapX < overlapY THEN overlapX ELSE overlapY
              aReflected == reflectVelocity(a.vx, a.vy, nx, ny)
              bReflected == reflectVelocity(b.vx, b.vy, -nx, -ny)
              half == overlap \div 2
          IN [a |-> [x |-> a.x - nx * half, y |-> a.y - ny * half,
                     vx |-> aReflected.vx, vy |-> aReflected.vy],
              b |-> [x |-> b.x + nx * half, y |-> b.y + ny * half,
                     vx |-> bReflected.vx, vy |-> bReflected.vy],
              acted |-> TRUE, nx |-> nx, ny |-> ny]

\* The body of the inner loop of Policy B for the pair (a, b): nx, ny is the
\* normal it chose, overlap the overlap it separated by.
ResolvePairB(a, b) ==
  LET size == Size("B")
      overlapX == Min(a.x + size, b.x + size) - Max(a.x, b.x)
      overlapY == Min(a.y + size, b.y + size) - Max(a.y, b.y)
  IN IF overlapX <= 0 \/ overlapY <= 0
     THEN [a |-> a, b |-> b, acted |-> FALSE, nx |-> 0, ny |-> 0]
     ELSE LET nx == IF overlapX < overlapY
                    THEN (IF a.x + size \div 2 < b.x + size \div 2 THEN -1 ELSE 1)
                    ELSE 0
              ny == IF overlapX < overlapY
                    THEN 0
                    ELSE (IF a.y + size \div 2 < b.y + size \div 2 THEN 1 ELSE -1)
              overlap == IF overlapX < overlapY THEN overlapX ELSE overlapY
              aReflected == reflectVelocity(a.vx, a.vy, nx, ny)
              bReflected == reflectVelocity(b.vx, b.vy, -nx, -ny)
              half == overlap \div 2
          IN [a |-> [x |-> a.x - nx * half, y |-> a.y - ny * half,
                     vx |-> aReflected.vx, vy |-> aReflected.vy],
              b |-> [x |-> b.x + nx * half, y |-> b.y + ny * half,
                     vx |-> bReflected.vx, vy |-> bReflected.vy],
              acted |-> TRUE, nx |-> nx, ny |-> ny]

ResolvePair(p, a, b) == IF p = "A" THEN ResolvePairA(a, b) ELSE ResolvePairB(a, b)

\* ------------------------------------------------- stickers: tickStickers
\* The index pairs of "for i ... for j = i + 1 ...", in the order visited.
RECURSIVE PairsFrom(_, _, _)
PairsFrom(n, i, j) ==
  IF i > n THEN <<>>
  ELSE IF j > n THEN PairsFrom(n, i + 1, i + 2)
  ELSE <<<<i, j>>>> \o PairsFrom(n, i, j + 1)

\* The pairs from the last to the first.
PairOrder_Descending(n) ==
  [k \in 1..Len(PairsFrom(n, 1, 2)) |->
     PairsFrom(n, 1, 2)[Len(PairsFrom(n, 1, 2)) + 1 - k]]

PairOrder(n) == PairsFrom(n, 1, 2)

\* The second loop from the k-th pair on: [st, log], log holding for every
\* pair visited the two stickers before and after its step.
RECURSIVE ResolveFrom(_, _, _, _, _)
ResolveFrom(p, st, pairs, k, log) ==
  IF k > Len(pairs) THEN [st |-> st, log |-> log]
  ELSE LET i == pairs[k][1]
           j == pairs[k][2]
           r == ResolvePair(p, st[i], st[j])
       IN ResolveFrom(p, [st EXCEPT ![i] = r.a, ![j] = r.b], pairs, k + 1,
                      Append(log, [i |-> i, j |-> j, a0 |-> st[i], b0 |-> st[j],
                                   a1 |-> r.a, b1 |-> r.b, acted |-> r.acted,
                                   nx |-> r.nx, ny |-> r.ny]))

\* tickStickers(stickers, w, h), w and h in pixels.
tickStickers(p, st, w, h) ==
  LET maxX == (w - STICKER_SIZE) * Unit(p)
      maxY == (h - STICKER_SIZE) * Unit(p)
      m == [k \in 1..Len(st) |-> MoveAndClamp(st[k], maxX, maxY)]
      r == ResolveFrom(p, m, PairOrder(Len(st)), 1, <<>>)
  IN [moved |-> m, st |-> r.st, log |-> r.log]

\* -------------------------------------------------------- stickers: driver
Policies == {"A", "B"}

\* window.innerWidth, window.innerHeight read by a frame, pixels.
Containers == {<<100, 100>>, <<60, 60>>, <<40, 100>>, <<100, 30>>}

\* Initial positions, pixels: inside [0, w - STICKER_SIZE] of a 100 x 100 window.
InitPositions == {<<0, 0>>, <<30, 0>>, <<0, 30>>}

\* Directions (cos, sin) of randomVelocity, in fifths.
Directions == {<<5, 0>>, <<-5, 0>>, <<3, 4>>, <<-3, -4>>}

Speed(p) == IF p = "A" THEN SPEED_A ELSE SPEED_B

\* Milliseconds between two animation frames (60 Hz, 30 Hz).
FrameTimes == {16, 33}

\* The stickers initSticker can return.
InitStickerStates(p) ==
  {[x |-> pos[1] * Unit(p), y |-> pos[2] * Unit(p),
    vx |-> (dir[1] * Speed(p) * Unit(p)) \div 50,
    vy |-> (dir[2] * Speed(p) * Unit(p)) \div 50] :
     pos \in InitPositions, dir \in Directions}

InitStickers ==
  /\ WaveIdle
  /\ SvgIdle
  /\ NavIdle
  /\ LoopIdle
  /\ policy \in Policies
  /\ \E n \in 1..NumStickers : stickers \in [1..n -> InitStickerStates(policy)]
  /\ bounds = <<100, 100>>
  /\ ticks = 0
  /\ moved = stickers
  /\ pairLog = <<>>
  /\ before = stickers
  /\ frameTime = 16
  /\ twin = [st |-> stickers, n |-> 0]

\* One frame of loop(): tickStickers(current, window.innerWidth, window.innerHeight).
\* The browser calls loop with the frame's timestamp, which loop does not take.
RunLoop(w, h) ==
  /\ ticks < MaxTicks
  /\ LET t == tickStickers(policy, stickers, w, h)
     IN /\ stickers' = t.st
        /\ moved' = t.moved
        /\ pairLog' = t.log
  /\ before' = stickers
  /\ bounds' = <<w, h>>
  /\ ticks' = ticks + 1
  /\ UNCHANGED <<policy, twin>>
  /\ UNCHANGED <<waveVars, svgVars, navVars, loopVars>>

\* A frame of a run whose frames come at a steady rate.
Tick(w, h) ==
  /\ RunLoop(w, h)
  /\ UNCHANGED frameTime

NextStickers == \E c \in Containers : Tick(c[1], c[2])

\* ---------------------------------------------------- stickers: two runs
\* Two instances of the loop started from the same stickers. The first run's
\* frame reads the window size; the second run's frame is given the same
\* size; the time since the previous frame differs from frame to frame.
\* Both runs start from stickers placed along the left edge.
InitReplay ==
  /\ WaveIdle
  /\ SvgIdle
  /\ NavIdle
  /\ LoopIdle
  /\ policy \in Policies
  /\ \E n \in 1..NumStickers :
       stickers \in [1..n -> {s \in InitStickerStates(policy) : s.x = 0}]
  /\ bounds = <<100, 100>>
  /\ ticks = 0
  /\ moved = stickers
  /\ pairLog = <<>>
  /\ before = stickers
  /\ frameTime = 16
  /\ twin = [st |-> stickers, n |-> 0]

ReplayTick(w, h) ==
  /\ twin.n = ticks
  /\ RunLoop(w, h)
  /\ frameTime' \in FrameTimes

TwinTick ==
  /\ twin.n < ticks
  /\ twin' = [st |-> tickStickers(policy, twin.st, bounds[1], bounds[2]).st,
              n |-> twin.n + 1]
  /\ frameTime' \in FrameTimes
  /\ UNCHANGED <<policy, stickers, bounds, ticks, moved, pairLog, before>>
  /\ UNCHANGED <<waveVars, svgVars, navVars, loopVars>>

NextReplay ==
  \/ \E c \in Containers : ReplayTick(c[1], c[2])
  \/ TwinTick

\* --------------------------------------------------- stickers: initSticker
\* The values of Math.random() in hundredths; 1 is not one of them.
Randoms == {0, 50, 99}

\* (cos, sin) of the angle Math.random() * Math.PI * 2, in fifths, for the
\* angles at which both are whole fifths.
Angles ==
  {<<5, 0>>, <<0, 5>>, <<-5, 0>>, <<0, -5>>,
   <<3, 4>>, <<4, 3>>, <<-3, 4>>, <<-4, 3>>,
   <<-3, -4>>, <<-4, -3>>, <<3, -4>>, <<4, -3>>}

\* What one call of initSticker draws from Math.random(): the angle, then
\* the factors of x and y.
Draws == [angle : Angles, rx : Randoms, ry : Randoms]

\* vx: Math.cos(angle) * SPEED, vy: Math.sin(angle) * SPEED
randomVelocity(p, angle) ==
  [vx |-> (angle[1] * Speed(p) * Unit(p)) \div 50,
   vy |-> (angle[2] * Speed(p) * Unit(p)) \div 50]

\* Math.random() * Math.max(0, bound - STICKER_SIZE), r in hundredths.
RandomPosition(p, r, bound) ==
  (r * Max(0, bound - STICKER_SIZE) * Unit(p)) \div 100

\* initSticker whose positions are Math.random() * (bound - STICKER_SIZE).
initSticker_NoFloor(p, w, h, draw) ==
  [x |-> (draw.rx * (w - STICKER_SIZE) * Unit(p)) \div 100,
   y |-> (draw.ry * (h - STICKER_SIZE) * Unit(p)) \div 100,
   vx |-> randomVelocity(p, draw.angle).vx,
   vy |-> randomVelocity(p, draw.angle).vy]

\* initSticker(src, w, h); src plays no part in the motion.
initSticker(p, w, h, draw) ==
  [x |-> RandomPosition(p, draw.rx, w),
   y |-> RandomPosition(p, draw.ry, h),
   vx |-> randomVelocity(p, draw.angle).vx,
   vy |-> randomVelocity(p, draw.angle).vy]

\* The (w, h) initSticker is called with: the window at mount, pixels; 400
\* is the value used without a window.
InitBounds ==
  {<<400, 400>>, <<100, 100>>, <<60, 60>>, <<44, 44>>, <<40, 100>>, <<100, 30>>}

\* A call of initSticker is pending: bounds holds its (w, h).
InitInit ==
  /\ WaveIdle
  /\ SvgIdle
  /\ NavIdle
  /\ LoopIdle
  /\ policy \in Policies
  /\ stickers = <<>>
  /\ bounds \in InitBounds
  /\ ticks = 0
  /\ moved = <<>>
  /\ pairLog = <<>>
  /\ before = <<>>
  /\ frameTime = 16
  /\ twin = [st |-> <<>>, n |-> 0]

\* One call initSticker(src, bounds[1], bounds[2]).
CallInitSticker(draw) ==
  /\ stickers = <<>>
  /\ stickers' = <<initSticker(policy, bounds[1], bounds[2], draw)>>
  /\ UNCHANGED <<policy, bounds, ticks, moved, pairLog, before, frameTime, twin>>
  /\ UNCHANGED <<waveVars, svgVars, navVars, loopVars>>

NextInit == \E draw \in Draws : CallInitSticker(draw)

\* ----------------------------------------- stickers: the component's loop
\* The draws of the three initSticker calls of a mount.
MountDraws ==
  {[angle |-> <<3, 4>>, rx |-> 0, ry |-> 50],
   [angle |-> <<-5, 0>>, rx |-> 50, ry |-> 50],
   [angle |-> <<4, -3>>, rx |-> 99, ry |-> 0]}

\* STICKER_SOURCES.map((src) => initSticker(src, w, h))
InitialStickers(p, w, h, draws) ==
  [k \in 1..NumStickers |-> initSticker(p, w, h, draws[k])]

\* The cleanup that cancels nothing.
cancelAnimationFrame_Nothing(q, id) == q

\* cancelAnimationFrame(id): the request id is no longer pending.
cancelAnimationFrame(q, id) == q \ {id}

\* rafRef.current = requestAnimationFrame(loop)
RequestLoop(q) ==
  /\ rafRef' = nextRafId
  /\ loopQueue' = q \cup {nextRafId}
  /\ nextRafId' = nextRafId + 1

\* The first render and its effects. Policy A: the mount effect fills
\* stickersRef and sets ready; the loop effect, run with ready false,
\* returns at once. Policy B: the one effect fills stickersRef, requests
\* the first frame and returns the cleanup.
MountStickers(w, h, draws) ==
  /\ lifecycle = "unmounted"
  /\ lifecycle' = "mounted"
  /\ stickers' = InitialStickers(policy, w, h, draws)
  /\ moved' = stickers'
  /\ before' = stickers'
  /\ IF policy = "A"
     THEN /\ ready' = TRUE
          /\ UNCHANGED <<rafRef, loopQueue, nextRafId, loopCleanup>>
     ELSE /\ RequestLoop(loopQueue)
          /\ loopCleanup' = TRUE
          /\ UNCHANGED ready
  /\ UNCHANGED <<policy, bounds, ticks, pairLog, frameTime, twin, instance>>
  /\ UNCHANGED <<svgContent, dims, effectGen, domPaths, originalPaths,
                 animationFrameRef, rafQueue, hasCleanup, lastFrame>>
  /\ UNCHANGED <<waveVars, navVars>>

\* Policy A: the render after setReady(true); the loop effect runs with
\* ready true, requests the first frame and returns the cleanup.
StartLoop ==
  /\ policy = "A"
  /\ lifecycle = "mounted"
  /\ ready
  /\ ~loopCleanup
  /\ RequestLoop(loopQueue)
  /\ loopCleanup' = TRUE
  /\ UNCHANGED <<instance, lifecycle, ready>>
  /\ UNCHANGED <<svgContent, dims, effectGen, domPaths, originalPaths,
                 animationFrameRef, rafQueue, hasCleanup, lastFrame>>
  /\ UNCHANGED <<waveVars, stickerVars, navVars>>

\* The browser runs the pending request id: loop(). stickersRef.current is
\* null until the mount.
LoopFrame(id, w, h) ==
  /\ id \in loopQueue
  /\ ticks < MaxTicks
  /\ IF lifecycle = "unmounted"
     THEN /\ loopQueue' = loopQueue \ {id}
          /\ UNCHANGED <<stickers, moved, pairLog, before, bounds, ticks,
                         rafRef, nextRafId>>
     ELSE /\ LET t == tickStickers(policy, stickers, w, h)
             IN /\ stickers' = t.st
                /\ moved' = t.moved
                /\ pairLog' = t.log
          /\ before' = stickers
          /\ bounds' = <<w, h>>
          /\ ticks' = ticks + 1
          /\ RequestLoop(loopQueue \ {id})
  /\ UNCHANGED <<policy, frameTime, twin>>
  /\ UNCHANGED <<instance, lifecycle, ready, loopCleanup>>
  /\ UNCHANGED <<svgContent, dims, effectGen, domPaths, originalPaths,
                 animationFrameRef, rafQueue, hasCleanup, lastFrame>>
  /\ UNCHANGED <<waveVars, navVars>>

\* The component unmounts: the cleanup of the loop effect, if its last run
\* returned one.
UnmountStickers ==
  /\ lifecycle = "mounted"
  /\ lifecycle' = "removed"
  /\ loopQueue' = IF loopCleanup THEN cancelAnimationFrame(loopQueue, rafRef)
                  ELSE loopQueue
  /\ loopCleanup' = FALSE
  /\ UNCHANGED <<instance, ready, rafRef>>
  /\ UNCHANGED <<waveVars, svgVars, stickerVars, navVars>>

\* ------------------------------------------ one animation instance, halted
\* A run follows one animation instance from its mount to its unmount: a
\* WaveSVG, or a BouncingStickers of either policy.
Instances == {"WaveSVG", "BouncingStickers"}

InitHalt ==
  /\ WaveIdle
  /\ SvgIdle
  /\ NavIdle
  /\ policy \in Policies
  /\ stickers = <<>>
  /\ bounds = <<100, 100>>
  /\ ticks = 0
  /\ moved = <<>>
  /\ pairLog = <<>>
  /\ before = <<>>
  /\ frameTime = 16
  /\ twin = [st |-> <<>>, n |-> 0]
  /\ instance \in Instances
  /\ lifecycle = "unmounted"
  /\ ready = FALSE
  /\ rafRef = 0
  /\ loopQueue = {}
  /\ loopCleanup = FALSE

NextHalt ==
  \/ \E doc \in DocIds : instance = "WaveSVG" /\ Mount(doc)
  \/ \E doc \in DocIds : instance = "WaveSVG" /\ ChangeContent(doc)
  \/ \E d \in Dimensions : instance = "WaveSVG" /\ ChangeDims(d)
  \/ \E r \in rafQueue, step \in FrameSteps :
       instance = "WaveSVG" /\ Frame(r, step)
  \/ instance = "WaveSVG" /\ Unmount
  \/ \E c \in Containers, draws \in [1..NumStickers -> MountDraws] :
       instance = "BouncingStickers" /\ MountStickers(c[1], c[2], draws)
  \/ instance = "BouncingStickers" /\ StartLoop
  \/ \E id \in loopQueue, c \in Containers :
       instance = "BouncingStickers" /\ LoopFrame(id, c[1], c[2])
  \/ instance = "BouncingStickers" /\ UnmountStickers

\* ------------------------------------------------------ stickers: onClick
\* href.startsWith(prefix)
startsWith(href, prefix) ==
  /\ Len(href) >= Len(prefix)
  /\ SubSeq(href, 1, Len(prefix)) = prefix

\* links.length >= 5 ? links.slice(0, 5) : [...links, "/"]
linksList(ls) == IF Len(ls) >= 5 THEN SubSeq(ls, 1, 5) ELSE Append(ls, <<"/">>)

\* The values of Math.floor(Math.random() * n), Math.random() in [0, 1).
RandomIndexes(n) == 0..(n - 1)

\* linksList[r] ?? "/"
ChosenHref(ls, r) ==
  IF r + 1 \in DOMAIN linksList(ls) THEN linksList(ls)[r + 1] ELSE <<"/">>

\* href.startsWith("http")
OpensNewContext(href) == startsWith(href, <<"h", "t", "t", "p">>)

\* The targets a links file can hold, as characters: an absolute http
\* address, an absolute address of another scheme, a relative address.
Targets ==
  { <<"h", "t", "t", "p", "s", ":", "/", "/", "a">>,
    <<"f", "t", "p", ":", "/", "/", "a">>,
    <<"/", "a">> }

\* Numbers of links supplied: none, fewer than 5, 5, more than 5.
LinkCounts == {0, 1, 4, 5, 6}

InitNav ==
  /\ WaveIdle
  /\ SvgIdle
  /\ StickersIdle
  /\ LoopIdle
  /\ \E n \in LinkCounts : links \in [1..n -> Targets]
  /\ location = <<"/">>
  /\ assigned = 0
  /\ opened = <<>>
  /\ clicks = 0
  /\ lastHref = NoHref
  /\ lastAction = "none"

\* onClick of a sticker, r the random index. preventDefault keeps the
\* anchor's own href="#" from navigating.
Activate(r) ==
  /\ clicks < MaxClicks
  /\ LET href == ChosenHref(links, r)
     IN /\ lastHref' = href
        /\ IF OpensNewContext(href)
           THEN /\ opened' = Append(opened, href)
                /\ lastAction' = "open"
                /\ UNCHANGED <<location, assigned>>
           ELSE /\ location' = href
                /\ assigned' = assigned + 1
                /\ lastAction' = "assign"
                /\ UNCHANGED opened
  /\ clicks' = clicks + 1
  /\ UNCHANGED links
  /\ UNCHANGED <<waveVars, svgVars, stickerVars, loopVars>>

NextNav == \E r \in RandomIndexes(Len(linksList(links))) : Activate(r)

\* ------------------------------------------------------- stickers: claims
Ticked == ticks > 0

\* The pair steps of the last tick.
PairSteps == {pairLog[k] : k \in 1..Len(pairLog)}

\* No pair step of the last tick changed anything: the stickers are as the
\* move-and-clamp loop left them.
NoPairActed == \A e \in PairSteps : ~e.acted

OverlapX(a, b) == Min(a.x + Size(policy), b.x + Size(policy)) - Max(a.x, b.x)

OverlapY(a, b) == Min(a.y + Size(policy), b.y + Size(policy)) - Max(a.y, b.y)

\* Squared distance of the centers.
DistSq(a, b) == (b.x - a.x) * (b.x - a.x) + (b.y - a.y) * (b.y - a.y)

\* The centers move toward each other: the distance decreases under the
\* current velocities, d/dt |cb - ca|^2 < 0.
Approaching(a, b) == (b.x - a.x) * (b.vx - a.vx) + (b.y - a.y) * (b.vy - a.vy) < 0

\* Sum of the two velocity components along the normal of step e.
NormalSum(a, b, e) == (a.vx + b.vx) * e.nx + (a.vy + b.vy) * e.ny

\* Squared speed of s in units of 1 / 50 px per frame.
SpeedSq(s) ==
  LET u == Unit(policy) \div 50
  IN (s.vx \div u) * (s.vx \div u) + (s.vy \div u) * (s.vy \div u)

\* The velocity components of s are whole multiples of 1 / 50 px per frame.
WholeVelocity(s) ==
  /\ s.vx % (Unit(policy) \div 50) = 0
  /\ s.vy % (Unit(policy) \div 50) = 0

\* C1: after every tick with w >= size and h >= size, every entity has
\* 0 <= x <= w - size and 0 <= y <= h - size for the bounds of that tick.
C1_BoundaryInvariant ==
  (Ticked /\ bounds[1] >= STICKER_SIZE /\ bounds[2] >= STICKER_SIZE) =>
    \A k \in 1..Len(stickers) :
      /\ 0 <= stickers[k].x
      /\ stickers[k].x <= (bounds[1] - STICKER_SIZE) * Unit(policy)
      /\ 0 <= stickers[k].y
      /\ stickers[k].y <= (bounds[2] - STICKER_SIZE) * Unit(policy)

\* C2: under Policy B, a pair whose boxes overlap by a positive amount on
\* both axes when its step starts has no overlap left on the chosen axis
\* when its step ends.
C2_SeparationB ==
  policy = "B" =>
    \A e \in PairSteps :
      (OverlapX(e.a0, e.b0) > 0 /\ OverlapY(e.a0, e.b0) > 0) =>
        IF e.nx /= 0 THEN OverlapX(e.a1, e.b1) <= 0 ELSE OverlapY(e.a1, e.b1) <= 0

\* C3: under Policy A, a pair whose center distance is below size and not
\* zero is changed by its step exactly when it is approaching.
C3_GatingA ==
  policy = "A" =>
    \A e \in PairSteps :
      (0 < DistSq(e.a0, e.b0) /\ DistSq(e.a0, e.b0) < Size("A") * Size("A")) =>
        ((e.a1 /= e.a0 \/ e.b1 /= e.b0) <=> Approaching(e.a0, e.b0))

\* C4: under Policy A, the step of a resolved pair leaves the sum of the two
\* velocity components along the collision normal as it was.
C4_MomentumA ==
  policy = "A" =>
    \A e \in PairSteps :
      e.acted => NormalSum(e.a1, e.b1, e) = NormalSum(e.a0, e.b0, e)

C4_Witness ==
  /\ policy = "A"
  /\ \E e \in PairSteps :
       /\ e.acted
       /\ e.a1.vx /= e.a0.vx
       /\ e.b1.vy /= e.b0.vy
       /\ NormalSum(e.a0, e.b0, e) /= 0

\* C10: after a tick whose container is smaller than the entity on an axis,
\* every entity's coordinate on that axis is 0 (stated for the ticks in which
\* no pair step moved an entity afterwards).
C10_DegenerateFloor ==
  (Ticked /\ NoPairActed) =>
    \A k \in 1..Len(stickers) :
      /\ bounds[1] < STICKER_SIZE => stickers[k].x = 0
      /\ bounds[2] < STICKER_SIZE => stickers[k].y = 0

\* C12: under Policy B a colliding pair is reflected and separated along
\* the axis with the smaller overlap, and along X when the two overlaps are
\* equal.
C12_AxisChoiceB ==
  policy = "B" =>
    \A e \in PairSteps :
      e.acted =>
        IF OverlapX(e.a0, e.b0) <= OverlapY(e.a0, e.b0)
        THEN e.nx /= 0 /\ e.ny = 0
        ELSE e.nx = 0 /\ e.ny /= 0

\* The position and velocity the clamp leaves on one axis for the advanced
\* position adv, the velocity v and the largest position hi > 0.
WallReflected(adv, v, hi) ==
  IF adv <= 0 THEN <<0, Abs(v)>>
  ELSE IF adv >= hi THEN <<hi, -Abs(v)>>
  ELSE <<adv, v>>

\* C13: with bound - size > 0, on each axis, the first loop leaves a sticker
\* at 0 with velocity |v| when its advanced position is <= 0, at bound - size
\* with velocity -|v| when it is >= bound - size, and as advanced otherwise.
C13_WallReflection ==
  Ticked =>
    \A k \in 1..Len(before) :
      /\ bounds[1] > STICKER_SIZE =>
           <<moved[k].x, moved[k].vx>> =
             WallReflected(before[k].x + before[k].vx, before[k].vx,
                           (bounds[1] - STICKER_SIZE) * Unit(policy))
      /\ bounds[2] > STICKER_SIZE =>
           <<moved[k].y, moved[k].vy>> =
             WallReflected(before[k].y + before[k].vy, before[k].vy,
                           (bounds[2] - STICKER_SIZE) * Unit(policy))

\* A sticker at x = 0 moving left is left at x = 0 moving right, while
\* another is turned back at the right wall and a third is strictly inside.
C13_Witness ==
  /\ Ticked
  /\ bounds = <<60, 60>>
  /\ \E k \in 1..Len(before) :
       /\ before[k].x = 0 /\ before[k].vx < 0
       /\ moved[k].x = 0 /\ moved[k].vx = -before[k].vx
  /\ \E k \in 1..Len(before) :
       /\ before[k].vx > 0
       /\ moved[k].x = (bounds[1] - STICKER_SIZE) * Unit(policy)
       /\ moved[k].vx = -before[k].vx
  /\ \E k \in 1..Len(before) :
       /\ moved[k].y = before[k].y + before[k].vy
       /\ moved[k].y > 0 /\ moved[k].vy = before[k].vy

\* The steps among the first k - 1 of the last tick that visited sticker i.
StepsOf(i, k) == {m \in 1..(k - 1) : pairLog[m].i = i \/ pairLog[m].j = i}

\* Sticker i as the first k - 1 pair steps of the last tick left it: as the
\* last of them to visit it left it, or as the first loop left it.
StickerAt(i, k) ==
  IF StepsOf(i, k) = {} THEN moved[i]
  ELSE LET m == CHOOSE n \in StepsOf(i, k) : \A o \in StepsOf(i, k) : o <= n
       IN IF pairLog[m].i = i THEN pairLog[m].a1 ELSE pairLog[m].b1

\* The position a sticker is moved to on one axis: the position advanced by
\* the velocity when that is strictly between the walls, else a wall.
AdvancedAndClamped(pos, v, hi, new) ==
  IF 0 < pos + v /\ pos + v < hi THEN new = pos + v ELSE new \in {0, hi}

\* C14: in a tick every sticker is first advanced by exactly its velocity,
\* whatever the time since the previous frame, and clamped; the pair steps
\* come after all of that, one for each pair i < j, in ascending order, each
\* starting from what the steps before it left.
C14_TickOrdering ==
  Ticked =>
    /\ \A k \in 1..Len(before) :
         /\ AdvancedAndClamped(before[k].x, before[k].vx,
                               (bounds[1] - STICKER_SIZE) * Unit(policy), moved[k].x)
         /\ AdvancedAndClamped(before[k].y, before[k].vy,
                               (bounds[2] - STICKER_SIZE) * Unit(policy), moved[k].y)
    /\ 2 * Len(pairLog) = Len(stickers) * (Len(stickers) - 1)
    /\ \A k \in 1..Len(pairLog) :
         /\ 1 <= pairLog[k].i /\ pairLog[k].i < pairLog[k].j
         /\ pairLog[k].j <= Len(stickers)
         /\ pairLog[k].a0 = StickerAt(pairLog[k].i, k)
         /\ pairLog[k].b0 = StickerAt(pairLog[k].j, k)
    /\ \A k, l \in 1..Len(pairLog) :
         k < l => \/ pairLog[k].i < pairLog[l].i
                  \/ pairLog[k].i = pairLog[l].i /\ pairLog[k].j < pairLog[l].j
    /\ \A i \in 1..Len(stickers) : stickers[i] = StickerAt(i, Len(pairLog) + 1)

\* The second tick of three stickers, run 33 ms after the first, in which a
\* sticker was visited by two pair steps that both changed it.
C14_Witness ==
  /\ ticks = 2
  /\ twin.n < ticks
  /\ frameTime = 33
  /\ Len(stickers) = 3
  /\ moved /= before
  /\ \E k, l \in 1..Len(pairLog) :
       /\ k < l
       /\ pairLog[k].acted /\ pairLog[l].acted
       /\ pairLog[k].j = pairLog[l].j

\* The list the activation is to choose from: the supplied targets, and the
\* default target after them when fewer than 5 were supplied.
TargetList == IF Len(links) < 5 THEN Append(links, <<"/">>) ELSE links

Elements(seq) == {seq[k] : k \in 1..Len(seq)}

\* The targets an activation can choose.
Outcomes == {ChosenHref(links, r) : r \in RandomIndexes(Len(linksList(links)))}

\* C15: the list an activation used holds the supplied targets, and "/" when
\* fewer than 5 were supplied, and nothing else; the activation chose an
\* element of it, and every supplied target is one an activation can choose.
C15_TargetList ==
  clicks > 0 =>
    /\ Elements(linksList(links)) = Elements(TargetList)
    /\ lastHref \in Elements(TargetList)
    /\ Elements(links) \subseteq Outcomes

\* An address with a scheme: letters, then a colon.
Letters == {"h", "t", "p", "s", "f", "a"}

IsAbsolute(href) ==
  \E i \in 2..Len(href) :
    /\ href[i] = ":"
    /\ \A j \in 1..(i - 1) : href[j] \in Letters

\* C16: every activation did exactly one navigation action: it opened an
\* absolute target in a new context and left the page's location alone, or
\* it assigned a relative target to the page's location and opened nothing.
C16_Dispatch ==
  /\ clicks = Len(opened) + assigned
  /\ lastHref /= NoHref =>
       IF IsAbsolute(lastHref)
       THEN lastAction = "open" /\ opened[Len(opened)] = lastHref
       ELSE lastAction = "assign" /\ location = lastHref

\* Velocity of s along the normal of step e and across it, in units of
\* 1 / NormalScale.
NormalComp(s, e) == s.vx * e.nx + s.vy * e.ny

TangentComp(s, e) == s.vy * e.nx - s.vx * e.ny

\* What the roundings of one step can add to a component: a unit and a half.
ExchangeTolerance == (3 * NormalScale) \div 2

\* C17: under Policy A a resolved pair ends its step with each sticker's
\* velocity along the normal equal to the other's before the step, and both
\* stickers' velocity across the normal as it was (up to rounding).
C17_ExchangeA ==
  policy = "A" =>
    \A e \in PairSteps :
      e.acted =>
        /\ Abs(NormalComp(e.a1, e) - NormalComp(e.b0, e)) <= ExchangeTolerance
        /\ Abs(NormalComp(e.b1, e) - NormalComp(e.a0, e)) <= ExchangeTolerance
        /\ Abs(TangentComp(e.a1, e) - TangentComp(e.a0, e)) <= ExchangeTolerance
        /\ Abs(TangentComp(e.b1, e) - TangentComp(e.b0, e)) <= ExchangeTolerance

C17_Witness ==
  /\ policy = "A"
  /\ \E e \in PairSteps :
       /\ e.acted
       /\ e.nx /= 0 /\ e.ny /= 0
       /\ Abs(NormalComp(e.a0, e) - NormalComp(e.b0, e)) > 20 * ExchangeTolerance
       /\ TangentComp(e.a0, e) /= 0 /\ TangentComp(e.b0, e) /= 0

\* What the roundings of one step can add to a distance: 0.1 px.
SeparationTolerance == Unit("A") \div 10

ReflectedAlongX(e, overlap) ==
  /\ e.a1.vx = -e.a0.vx /\ e.a1.vy = e.a0.vy
  /\ e.b1.vx = -e.b0.vx /\ e.b1.vy = e.b0.vy
  /\ e.a1.y = e.a0.y /\ e.b1.y = e.b0.y
  /\ 2 * Abs(e.a1.x - e.a0.x) = overlap
  /\ e.b1.x - e.b0.x = -(e.a1.x - e.a0.x)

ReflectedAlongY(e, overlap) ==
  /\ e.a1.vy = -e.a0.vy /\ e.a1.vx = e.a0.vx
  /\ e.b1.vy = -e.b0.vy /\ e.b1.vx = e.b0.vx
  /\ e.a1.x = e.a0.x /\ e.b1.x = e.b0.x
  /\ 2 * Abs(e.a1.y - e.a0.y) = overlap
  /\ e.b1.y - e.b0.y = -(e.a1.y - e.a0.y)

\* C19: under Policy B a colliding pair ends its step with both stickers'
\* velocity negated on the chosen axis and unchanged on the other, and with
\* both positions changed on the chosen axis only, by exactly half of that
\* axis' overlap, in opposite directions.
C19_ReflectionB ==
  policy = "B" =>
    \A e \in PairSteps :
      e.acted =>
        IF e.nx /= 0
        THEN ReflectedAlongX(e, OverlapX(e.a0, e.b0))
        ELSE ReflectedAlongY(e, OverlapY(e.a0, e.b0))

\* A tick of Policy B with a collision along X and one along Y, of stickers
\* moving on both axes.
C19_Witness ==
  /\ policy = "B"
  /\ \E e, f \in PairSteps :
       /\ e.acted /\ e.nx /= 0
       /\ e.a0.vx /= 0 /\ e.a0.vy /= 0 /\ e.b0.vx /= 0
       /\ f.acted /\ f.ny /= 0
       /\ f.a0.vy /= 0 /\ f.b0.vy /= 0 /\ f.b0.vx /= 0

\* The pair of step e is not in contact when the step starts.
NotInContact(e) ==
  IF policy = "A"
  THEN DistSq(e.a0, e.b0) >= Size("A") * Size("A")
  ELSE OverlapX(e.a0, e.b0) <= 0 \/ OverlapY(e.a0, e.b0) <= 0

\* C20: the step of a pair that is not in contact (Policy A: centers at
\* least size apart; Policy B: overlap <= 0 on an axis, touching boxes
\* included) changes neither sticker's position nor velocity.
C20_SeparatedUntouched ==
  \A e \in PairSteps :
    NotInContact(e) => e.a1 = e.a0 /\ e.b1 = e.b0

\* A tick of Policy B that visited a pair of moving stickers whose boxes
\* exactly touch on X.
C20_Witness ==
  /\ policy = "B"
  /\ \E e \in PairSteps :
       /\ OverlapX(e.a0, e.b0) = 0
       /\ OverlapY(e.a0, e.b0) > 0
       /\ e.a0.vx /= 0 /\ e.b0.vx /= 0
       /\ ~e.acted

\* The pair of step e does not approach on the X axis when the step ends:
\* the sticker with the smaller center does not have the larger velocity.
ApartOnX(e) ==
  /\ e.a1.x < e.b1.x => e.a1.vx <= e.b1.vx
  /\ e.b1.x < e.a1.x => e.b1.vx <= e.a1.vx

ApartOnY(e) ==
  /\ e.a1.y < e.b1.y => e.a1.vy <= e.b1.vy
  /\ e.b1.y < e.a1.y => e.b1.vy <= e.a1.vy

\* C25: under Policy B a colliding pair ends its step not approaching along
\* the chosen axis, whatever its velocities were when the step started.
C25_MovingApartB ==
  policy = "B" =>
    \A e \in PairSteps :
      e.acted => IF e.nx /= 0 THEN ApartOnX(e) ELSE ApartOnY(e)

\* The velocity components of t are those of s up to their signs.
SameMagnitudes(s, t) == Abs(t.vx) = Abs(s.vx) /\ Abs(t.vy) = Abs(s.vy)

\* C26: under Policy B every sticker's vx^2 + vy^2 is after every tick what
\* initSticker gave it, SPEED^2; the first loop and every pair step change
\* only the signs of velocity components, never their magnitudes.
C26_SpeedInvariantB ==
  policy = "B" =>
    /\ \A k \in 1..Len(stickers) :
         /\ WholeVelocity(stickers[k])
         /\ SpeedSq(stickers[k]) = (5 * SPEED_B) * (5 * SPEED_B)
         /\ SameMagnitudes(before[k], moved[k])
         /\ SameMagnitudes(before[k], stickers[k])
    /\ \A e \in PairSteps :
         SameMagnitudes(e.a0, e.a1) /\ SameMagnitudes(e.b0, e.b1)

\* Two ticks of Policy B in which a sticker moving on both axes was turned
\* by a wall and a pair was reflected.
C26_Witness ==
  /\ policy = "B"
  /\ ticks = 2
  /\ \E k \in 1..Len(stickers) :
       /\ before[k].vx /= 0 /\ before[k].vy /= 0
       /\ moved[k].vx = -before[k].vx
  /\ \E e \in PairSteps :
       /\ e.acted
       /\ e.a1.vy = -e.a0.vy /\ e.a0.vy /= 0
       /\ e.a0.vx /= 0

\* vx^2 + vy^2 of one sticker, and the sum over a sequence of stickers.
Energy(s) == s.vx * s.vx + s.vy * s.vy

RECURSIVE TotalEnergy(_)
TotalEnergy(st) ==
  IF st = <<>> THEN 0 ELSE Energy(Head(st)) + TotalEnergy(Tail(st))

\* What the roundings of one pair step can add to the pair's energy: the
\* impulse vrel * n is off by up to a unit and a half, which changes the
\* energy by up to twice that times the relative velocity.
EnergyTolerance(e) ==
  IF e.acted
  THEN 3 * (Abs(e.a0.vx - e.b0.vx) + Abs(e.a0.vy - e.b0.vy)) + 5
  ELSE 0

RECURSIVE TickTolerance(_)
TickTolerance(log) ==
  IF log = <<>> THEN 0 ELSE EnergyTolerance(Head(log)) + TickTolerance(Tail(log))

\* C27: under Policy A the sum over all stickers of vx^2 + vy^2 is after a
\* tick what it was before it: the first loop leaves it as it was, every
\* pair step leaves the sum of its pair as it was (up to rounding), whatever
\* the number of stickers, wall contacts and resolved pairs.
C27_EnergyInvariantA ==
  policy = "A" =>
    /\ TotalEnergy(moved) = TotalEnergy(before)
    /\ \A e \in PairSteps :
         Abs(Energy(e.a1) + Energy(e.b1) - Energy(e.a0) - Energy(e.b0))
           <= EnergyTolerance(e)
    /\ Abs(TotalEnergy(stickers) - TotalEnergy(before)) <= TickTolerance(pairLog)

\* The second tick of three stickers of Policy A in which a wall turned a
\* sticker and a pair step moved energy from one sticker to the other.
C27_Witness ==
  /\ policy = "A"
  /\ ticks = 2
  /\ Len(stickers) = 3
  /\ \E k \in 1..Len(stickers) :
       moved[k].vx = -before[k].vx /\ before[k].vx /= 0
  /\ \E e \in PairSteps :
       /\ e.acted
       /\ Abs(Energy(e.a1) - Energy(e.a0)) > 20 * EnergyTolerance(e)

C21_DegenerateSkippedA ==
  policy = "A" =>
    \A e \in PairSteps :
      DistSq(e.a0, e.b0) = 0 =>
        /\ ~e.acted
        /\ e.nx = 0 /\ e.ny = 0
        /\ e.a1 = e.a0 /\ e.b1 = e.b0

\* A tick of Policy A that visited a pair with coinciding centers whose
\* velocities differ and point against each other on X.
C21_Witness ==
  /\ policy = "A"
  /\ Ticked
  /\ \E e \in PairSteps :
       /\ DistSq(e.a0, e.b0) = 0
       /\ e.a0.vx < e.b0.vx
       /\ e.a0.vy /= e.b0.vy
       /\ e.a1 = e.a0 /\ e.b1 = e.b0

\* ------------------------------------------------ animation loops: claims
\* The requests pending for an instance: at most one, the one its ref holds,
\* and none once its last cleanup ran.
PendingIsRecorded ==
  /\ Cardinality(loopQueue) <= 1
  /\ loopQueue \subseteq {rafRef}
  /\ lifecycle = "removed" => loopQueue = {}
  /\ Cardinality(rafQueue) <= 1
  /\ \A r \in rafQueue : r.id = animationFrameRef
  /\ svgContent = Unmounted => rafQueue = {}

\* The step ran a frame callback of the stickers: a pending request is gone
\* and the component is still there.
LoopCallbackRan ==
  /\ \E id \in loopQueue : id \notin loopQueue'
  /\ lifecycle' = lifecycle

\* The step ran a frame callback of the WaveSVG.
AnimateCallbackRan ==
  /\ \E r \in rafQueue : r \notin rafQueue'
  /\ svgContent' = svgContent

\* What a step does to the loops: a frame callback runs one tick (one call
\* of animate) and leaves one new request, the one in the ref; ticks and
\* frames happen in frame callbacks only; after the cleanup nothing runs.
OneTickPerCallback ==
  /\ LoopCallbackRan =>
       /\ ticks' = ticks + 1
       /\ Cardinality(loopQueue') = 1
       /\ loopQueue' = {rafRef'}
       /\ rafRef' \notin loopQueue
  /\ ticks' /= ticks => LoopCallbackRan
  /\ lifecycle = "removed" => UNCHANGED <<stickers, ticks, loopQueue, lifecycle>>
  /\ AnimateCallbackRan =>
       /\ lastFrame'.n = lastFrame.n + 1
       /\ lastFrame'.gen = effectGen
       /\ Cardinality(rafQueue') = 1
       /\ \A r \in rafQueue' : r.id = animationFrameRef' /\ r \notin rafQueue
  /\ lastFrame'.n /= lastFrame.n => AnimateCallbackRan
  /\ svgContent = Unmounted => UNCHANGED <<domPaths, lastFrame, rafQueue, svgContent>>

\* C22: for a BouncingStickers of either policy and for a WaveSVG, at most
\* one frame request is pending at any time, the one recorded in the ref;
\* every frame callback runs exactly one tick (one pass over the paths) and
\* requests exactly one successor; once the cleanup ran, no tick or
\* distortion runs any more.
C22_Halting == []PendingIsRecorded /\ [][OneTickPerCallback]_vars

\* The instance ran two frames, was unmounted, and nothing is pending.
C22_Witness ==
  IF instance = "WaveSVG"
  THEN /\ svgContent = Unmounted
       /\ lastFrame.n >= 2
       /\ animationFrameRef /= 0
       /\ rafQueue = {}
  ELSE /\ instance = "BouncingStickers"
       /\ lifecycle = "removed"
       /\ ticks >= 2
       /\ rafRef /= 0
       /\ loopQueue = {}

\* --------------------------------------------------- initSticker: claims
\* C23: the sticker initSticker returns for (w, h) has
\* 0 <= x <= max(0, w - size), 0 <= y <= max(0, h - size) and
\* vx^2 + vy^2 = SPEED^2, whatever Math.random() returned.
C23_InitialState ==
  \A k \in 1..Len(stickers) :
    (ticks = 0 /\ lifecycle = "unmounted") =>
      /\ 0 <= stickers[k].x
      /\ stickers[k].x <= Max(0, bounds[1] - STICKER_SIZE) * Unit(policy)
      /\ 0 <= stickers[k].y
      /\ stickers[k].y <= Max(0, bounds[2] - STICKER_SIZE) * Unit(policy)
      /\ WholeVelocity(stickers[k])
      /\ SpeedSq(stickers[k]) = (5 * Speed(policy)) * (5 * Speed(policy))

\* A sticker of Policy B made for a window narrower than a sticker: x is 0,
\* y is inside, and it moves on both axes.
C23_Witness ==
  /\ policy = "B"
  /\ Len(stickers) = 1
  /\ bounds[1] < STICKER_SIZE
  /\ stickers[1].x = 0
  /\ stickers[1].y > 0
  /\ stickers[1].vx < 0
  /\ stickers[1].vy > 0

\* ---------------------------------------------------------- specifications
InitSvg == WaveIdle /\ SvgIdle /\ StickersIdle /\ NavIdle /\ LoopIdle

SpecWave == InitWave /\ [][NextWave]_vars

SpecSvg == InitSvg /\ [][NextSvg]_vars

SpecStickers == InitStickers /\ [][NextStickers]_vars

SpecReplay == InitReplay /\ [][NextReplay]_vars

SpecNav == InitNav /\ [][NextNav]_vars

SpecInit == InitInit /\ [][NextInit]_vars

SpecHalt == InitHalt /\ [][NextHalt]_vars

Init ==
  InitWave \/ InitSvg \/ InitStickers \/ InitReplay \/ InitNav \/ InitInit
  \/ InitHalt

Next ==
  NextWave \/ NextSvg \/ NextStickers \/ NextReplay \/ NextNav \/ NextInit
  \/ NextHalt

Spec == Init /\ [][Next]_vars

====
